---- MODULE Spec2Model ----
(***************************************************************************)
(* The realtime duplex audio session of components/LiveSession: the        *)
(* useEffect that acquires the audio contexts, the microphone stream and   *)
(* the live transport, the transport callbacks, the capture callback, the  *)
(* playback scheduler (decodeAudio / playAudio) and the effect cleanup.    *)
(* The note vault of App (the notes list and the active note id) is        *)
(* modelled beside it.                                                     *)
(*                                                                         *)
(* Time is counted in sample periods of the output context (1/24000 s), so *)
(* an AudioBuffer of n samples has duration n.                             *)
(*                                                                         *)
(* Every callback body runs to completion (JavaScript is single-threaded); *)
(* a callback suspended at an await, a .then reaction waiting for the      *)
(* session promise and an audioprocess event already queued by the audio   *)
(* thread are positions at which any other handler may run first.          *)
(***************************************************************************)
EXTENDS Integers, Sequences, FiniteSets, TLC

\* ------------------------------------------------------------------ bounds
MaxClock  == 2      \* the output clock is explored up to this reading
MaxMsgs   == 2      \* inbound transport messages delivered in one run
MaxBlocks == 1      \* capture blocks produced by the audio thread in one run
MaxBurst  == 3      \* inbound messages delivered in one run of BurstSpec
MaxCapture == 3     \* capture blocks produced in one run of CaptureSpec
MaxWire   == 4      \* longest byte sequence handed to the decoder
MaxSamples == 2     \* longest Float32Array handed to the codec
MaxNotes  == 3      \* longest notes list held by the vault

VARIABLES
    status,            \* useState status: connecting | connected | error | closed
    mounted,           \* the effect's closure flag
    initPc,            \* position of init(): start | awaitGUM | done | failed
    inputCtx,          \* input AudioContext: none | running | closed
    outputCtx,         \* output AudioContext: none | running | closed
    inputRef,          \* inputContextRef.current is set
    outputRef,         \* outputContextRef.current is set
    stream,            \* microphone MediaStream: none | live | stopped
    transport,         \* live transport: none | opening | open | errored | closed | failed
    session,           \* sessionPromise: none | pending | resolved | rejected
    handler,           \* processor.onaudioprocess is installed and the graph connected
    capQ,              \* audioprocess events queued by the audio thread, oldest first
    pendingSends,      \* .then reactions waiting on sessionPromise, oldest first
    sent,              \* calls of session.sendRealtimeInput, in call order
    blocks,            \* capture blocks produced so far
    clock,             \* outputContext.currentTime
    nextStartTimeRef,  \* the scheduling cursor
    scheduled,         \* calls of source.start, in call order
    sourcesRef,        \* the active-source set (indices into scheduled)
    stopped,           \* sources on which stop() was called
    decodeQ,           \* onmessage handlers suspended at await decodeAudio, oldest first
    msgs,              \* inbound messages delivered so far
    failed,            \* inbound chunks (by arrival number) dropped on a decode failure
    released,          \* release calls made by the session, per resource
    closeRequests,     \* End Session requests made by the caller: 0, 1, or 2 for two or more
    statusAtClose,     \* status when the cleanup ran ("none" before)
    codecIn,           \* a Float32Array handed to floatTo16BitPCM
    codecBytes,        \* new Uint8Array(pcm16.buffer) of its result, once encoded
    codecBack,         \* those bytes decoded as decodeAudio decodes them
    notes,             \* App's notes list, as the sequence of the notes' ids
    activeNoteId,      \* App's activeNoteId (NoNote for null)
    lastDeleted        \* the id last passed to handleDeleteNote (NoNote before)

vars == << status, mounted, initPc, inputCtx, outputCtx, inputRef, outputRef,
           stream, transport, session, handler, capQ, pendingSends, sent,
           blocks, clock, nextStartTimeRef, scheduled, sourcesRef, stopped,
           decodeQ, msgs, failed, released, closeRequests,
           statusAtClose, codecIn, codecBytes, codecBack,
           notes, activeNoteId, lastDeleted >>

lifecycleVars == << status, mounted, initPc, inputCtx, outputCtx, inputRef,
                    outputRef, stream, transport, session, handler, released,
                    closeRequests, statusAtClose >>
captureVars   == << capQ, pendingSends, sent, blocks >>
playbackVars  == << nextStartTimeRef, scheduled, sourcesRef, stopped, decodeQ,
                    msgs, failed >>
codecVars     == << codecIn, codecBytes, codecBack >>
vaultVars     == << notes, activeNoteId, lastDeleted >>

\* ------------------------------------------------------------ program data
Resources == {"inputContext", "outputContext", "stream", "transport"}

\* ctx.createBuffer(1, float32.length, 24000): the rate of every decoded buffer
OutputSampleRate == 24000

\* clock ticks per second: one tick per sample period of the 24 kHz output
\* context, so that every duration is a whole number of ticks
TicksPerSecond == 24000

\* An inbound LiveServerMessage, reduced to what onmessage reads: whether the
\* first part carries a non-empty inlineData.data, whether that text is valid
\* base64, and the number of bytes it decodes to.
PayloadBytes == {0, 1, 2, 4}

Messages ==
    { [hasAudio |-> FALSE, b64ok |-> TRUE, nbytes |-> 0] }
    \cup { [hasAudio |-> TRUE, b64ok |-> FALSE, nbytes |-> 0] }
    \cup { [hasAudio |-> TRUE, b64ok |-> TRUE, nbytes |-> n] : n \in PayloadBytes }

Max(a, b) == IF a >= b THEN a ELSE b

\* decodeAudio: atob throws on invalid base64, new Int16Array(bytes.buffer)
\* throws on an odd byte length, createBuffer throws on a zero length;
\* otherwise the buffer holds one sample per two bytes.
decodeAudio(m) ==
    IF m.b64ok /\ m.nbytes % 2 = 0 /\ m.nbytes \div 2 > 0
    THEN [ok |-> TRUE,  length |-> m.nbytes \div 2]
    ELSE [ok |-> FALSE, length |-> 0]

\* variant that takes the capture rate of line 27 for the buffer's rate
durationAtInputRate(buffer) == (buffer.length * TicksPerSecond) \div 16000

\* AudioBuffer.duration = length / sampleRate seconds, in clock ticks
duration(buffer) == (buffer.length * TicksPerSecond) \div OutputSampleRate

\* ---------------------------------------------------- sample codec: 116-143
\* A Float32 sample is the rational k / SampleDen; every such value with
\* |k| <= 2^24 is a Float32, and its products with 0x8000 and 0x7FFF are exact
\* in the double arithmetic of the code.
SampleDen == 65536

\* the samples the codec is run on: below -1, -1, around 0, fractions, 1, above 1
Samples ==
    {-131072, -65537, -65536, -65535, -49153, -32768, -1, 0,
     1, 32768, 49153, 65535, 65536, 65537, 131072}

Min(a, b) == IF a <= b THEN a ELSE b

\* line 120: Math.max(-1, Math.min(1, float32Arr[i]))
clampSample(k) == Max(-SampleDen, Min(SampleDen, k))

\* the integer part of (k / SampleDen) * m, the conversion a store into an
\* integer typed array applies to the product; k is split into whole and
\* fractional parts so that no intermediate leaves the 32-bit range
mulTrunc(k, m) ==
    LET whole == k \div SampleDen
        frac  == k % SampleDen
        floor == whole * m + (frac * m) \div SampleDen
    IN  IF floor >= 0 \/ (frac * m) % SampleDen = 0 THEN floor ELSE floor + 1

\* a store into an Int16Array keeps the low 16 bits, two's complement
toInt16(v) == ((v + 32768) % 65536) - 32768

\* variant of line 121 that scales both signs by 0x7FFF
encodeSampleOneScale(k) ==
    toInt16(mulTrunc(clampSample(k), 32767))

\* variant of line 120 without the clamp: s = float32Arr[i]
encodeSampleUnclamped(k) ==
    toInt16(IF k < 0 THEN mulTrunc(k, 32768) ELSE mulTrunc(k, 32767))

\* lines 120-121: s < 0 ? s * 0x8000 : s * 0x7FFF, stored into the Int16Array
encodeSample(k) ==
    LET s == clampSample(k)
    IN  toInt16(IF s < 0 THEN mulTrunc(s, 32768) ELSE mulTrunc(s, 32767))

\* floatTo16BitPCM, lines 117-124
floatTo16BitPCM(float32Arr) ==
    [i \in 1..Len(float32Arr) |-> encodeSample(float32Arr[i])]

\* variant of line 57 that views the samples, not their buffer: one byte each
pcmBytesNarrow(int16Arr) ==
    [i \in 1..Len(int16Arr) |-> int16Arr[i] % 256]

\* line 57: new Uint8Array(pcm16.buffer), two bytes per sample, low byte first
pcmBytes(int16Arr) ==
    [i \in 1..(2 * Len(int16Arr)) |->
        IF i % 2 = 1 THEN (int16Arr[(i + 1) \div 2] % 65536) % 256
                     ELSE (int16Arr[i \div 2] % 65536) \div 256]

\* line 136: the i-th element of new Int16Array(bytes.buffer)
int16At(bytes, i) == toInt16(bytes[2 * i - 1] + 256 * bytes[2 * i])

\* line 138: pcm16[i] / 32768.0, as a multiple of 1 / SampleDen
decodeSample(q) == (q * SampleDen) \div 32768

\* lines 136-141 of decodeAudio on the bytes atob returned: an odd byte
\* length throws in new Int16Array, a zero length throws in createBuffer
decodePCM(bytes) ==
    IF Len(bytes) % 2 = 0 /\ Len(bytes) > 0
    THEN [done |-> TRUE, ok |-> TRUE,
          samples |-> [i \in 1..(Len(bytes) \div 2) |->
                          decodeSample(int16At(bytes, i))]]
    ELSE [done |-> TRUE, ok |-> FALSE, samples |-> << >>]

\* the codec before it has run: no frame encoded, nothing decoded
NoBytes == [done |-> FALSE, bytes |-> << >>]
NoBack == [done |-> FALSE, ok |-> FALSE, samples |-> << >>]

\* ------------------------------------------------------------------- Init
\* App.tsx: activeNoteId is string | null; NoNote stands for null
NoNote == 0

\* ids that uuid() may return
NoteIds == 1 .. (MaxNotes + 1)

\* App.tsx lines 15-30 on a first launch: storage holds no notes, so the list
\* is [createNewNote()] and activeNoteId is null
VaultFirstLaunch ==
    /\ notes = << 1 >>
    /\ activeNoteId = NoNote
    /\ lastDeleted = NoNote

SessionInit ==
    /\ status = "connecting"
    /\ mounted = TRUE
    /\ initPc = "start"
    /\ inputCtx = "none" /\ outputCtx = "none"
    /\ inputRef = FALSE /\ outputRef = FALSE
    /\ stream = "none"
    /\ transport = "none"
    /\ session = "none"
    /\ handler = FALSE
    /\ capQ = << >> /\ pendingSends = << >> /\ sent = << >>
    /\ blocks = 0
    /\ clock = 0
    /\ nextStartTimeRef = 0
    /\ scheduled = << >>
    /\ sourcesRef = {} /\ stopped = {}
    /\ decodeQ = << >>
    /\ msgs = 0
    /\ failed = {}
    /\ released = [r \in Resources |-> 0]
    /\ closeRequests = 0
    /\ statusAtClose = "none"

\* the session after construction; no buffer is in the codec
Init ==
    /\ SessionInit
    /\ VaultFirstLaunch
    /\ codecIn = << >>
    /\ codecBytes = NoBytes
    /\ codecBack = NoBack

\* ------------------------------------------------- init(): lines 24-103
\* catch (e) { console.error(...); setStatus('error'); }  -- not guarded by mounted
initCatch ==
    /\ status' = "error"
    /\ initPc' = "failed"

\* init() up to its first await: both AudioContexts are constructed, then both
\* refs are set, then getUserMedia is requested.  A constructor may throw
\* (no audio device); the one built before the throw is not yet in its ref.
InitBegin ==
    /\ initPc = "start"
    /\ \E fail \in {"none", "input", "output"} :
         CASE fail = "none" ->
                /\ inputCtx' = "running" /\ outputCtx' = "running"
                /\ inputRef' = TRUE /\ outputRef' = TRUE
                /\ initPc' = "awaitGUM"
                /\ UNCHANGED status
           [] fail = "input" ->
                /\ initCatch
                /\ UNCHANGED << inputCtx, outputCtx, inputRef, outputRef >>
           [] fail = "output" ->
                /\ inputCtx' = "running"
                /\ initCatch
                /\ UNCHANGED << outputCtx, inputRef, outputRef >>
    /\ UNCHANGED << mounted, stream, transport, session, handler, released,
                    closeRequests, statusAtClose >>
    /\ UNCHANGED << captureVars, playbackVars, clock, codecVars, vaultVars >>

\* variant without the try/catch ordering: init() goes on to ai.live.connect
\* although getUserMedia rejected
GumRejectConnects ==
    /\ initPc = "awaitGUM"
    /\ initPc' = "done"
    /\ transport' = "opening"
    /\ session' = "pending"
    /\ UNCHANGED << status, mounted, inputCtx, outputCtx, inputRef, outputRef,
                    stream, handler, released, closeRequests, statusAtClose >>
    /\ UNCHANGED << captureVars, playbackVars, clock, codecVars, vaultVars >>

\* getUserMedia rejects: control enters the catch block.
GumReject ==
    /\ initPc = "awaitGUM"
    /\ initCatch
    /\ UNCHANGED << mounted, inputCtx, outputCtx, inputRef, outputRef, stream,
                    transport, session, handler, released, closeRequests,
                    statusAtClose >>
    /\ UNCHANGED << captureVars, playbackVars, clock, codecVars, vaultVars >>

\* getUserMedia resolves: the stream is live; createMediaStreamSource and
\* createScriptProcessor build the capture nodes (on a context the cleanup has
\* already closed the platform may throw InvalidStateError, which lands in the
\* catch block); then ai.live.connect is called and its promise stored, not
\* awaited, so init() returns.
GumResolve ==
    /\ initPc = "awaitGUM"
    /\ stream' = "live"
    /\ \E throws \in (IF inputCtx = "closed" THEN BOOLEAN ELSE {FALSE}) :
         IF throws
         THEN /\ initCatch
              /\ UNCHANGED << transport, session >>
         ELSE /\ transport' = "opening"
              /\ session' = "pending"
              /\ initPc' = "done"
              /\ UNCHANGED status
    /\ UNCHANGED << mounted, inputCtx, outputCtx, inputRef, outputRef, handler,
                    released, closeRequests, statusAtClose >>
    /\ UNCHANGED << captureVars, playbackVars, clock, codecVars, vaultVars >>

\* ----------------------------------------- transport callbacks: lines 51-88
\* variant of the guard with the test inverted: if(!mounted) setStatus(...)
guardedStatusInverted(isMounted, current, next) ==
    IF isMounted THEN current ELSE next

\* setStatus under the mounted guard used by onopen, onclose and onerror
guardedStatus(isMounted, current, next) == IF isMounted THEN next ELSE current

\* onopen: if(mounted) setStatus('connected'); install processor.onaudioprocess
\* and connect inputNode -> processor -> destination.
OnOpen ==
    /\ transport = "opening"
    /\ transport' = "open"
    /\ status' = guardedStatus(mounted, status, "connected")
    /\ handler' = TRUE
    /\ UNCHANGED << mounted, initPc, inputCtx, outputCtx, inputRef, outputRef,
                    stream, session, released, closeRequests, statusAtClose >>
    /\ UNCHANGED << captureVars, playbackVars, clock, codecVars, vaultVars >>

\* variant in which the status is set to connected when the connect promise
\* resolves, as if by sessionPromise.then(() => setStatus('connected'))
SessionResolveConnects ==
    /\ session = "pending"
    /\ handler
    /\ session' = "resolved"
    /\ status' = guardedStatus(mounted, status, "connected")
    /\ UNCHANGED << mounted, initPc, inputCtx, outputCtx, inputRef,
                    outputRef, stream, transport, handler, released,
                    closeRequests, statusAtClose >>
    /\ UNCHANGED << captureVars, playbackVars, clock, codecVars, vaultVars >>

\* The promise returned by ai.live.connect resolves with the session once the
\* transport has opened.
SessionResolve ==
    /\ session = "pending"
    /\ handler
    /\ session' = "resolved"
    /\ UNCHANGED << status, mounted, initPc, inputCtx, outputCtx, inputRef,
                    outputRef, stream, transport, handler, released,
                    closeRequests, statusAtClose >>
    /\ UNCHANGED << captureVars, playbackVars, clock, codecVars, vaultVars >>

\* The promise returned by ai.live.connect rejects before the transport opens;
\* no callback runs and nothing awaits the promise.
ConnectReject ==
    /\ session = "pending"
    /\ transport = "opening"
    /\ session' = "rejected"
    /\ transport' = "failed"
    /\ UNCHANGED << status, mounted, initPc, inputCtx, outputCtx, inputRef,
                    outputRef, stream, handler, released, closeRequests,
                    statusAtClose >>
    /\ UNCHANGED << captureVars, playbackVars, clock, codecVars, vaultVars >>

\* onerror: console.error(e); if(mounted) setStatus('error')
OnError ==
    /\ transport \in {"opening", "open"}
    /\ transport' = "errored"
    /\ status' = guardedStatus(mounted, status, "error")
    /\ UNCHANGED << mounted, initPc, inputCtx, outputCtx, inputRef, outputRef,
                    stream, session, handler, released, closeRequests,
                    statusAtClose >>
    /\ UNCHANGED << captureVars, playbackVars, clock, codecVars, vaultVars >>

\* variant of onclose that reconnects: it calls ai.live.connect again
OnCloseReconnects ==
    /\ transport \in {"opening", "open", "errored"}
    /\ transport' = "opening"
    /\ session' = "pending"
    /\ status' = guardedStatus(mounted, status, "closed")
    /\ UNCHANGED << mounted, initPc, inputCtx, outputCtx, inputRef, outputRef,
                    stream, handler, released, closeRequests, statusAtClose >>
    /\ UNCHANGED << captureVars, playbackVars, clock, codecVars, vaultVars >>

\* onclose: if(mounted) setStatus('closed').  The transport reports its close
\* after an error as well as after a remote or local close.
OnClose ==
    /\ transport \in {"opening", "open", "errored"}
    /\ transport' = "closed"
    /\ status' = guardedStatus(mounted, status, "closed")
    /\ UNCHANGED << mounted, initPc, inputCtx, outputCtx, inputRef, outputRef,
                    stream, session, handler, released, closeRequests,
                    statusAtClose >>
    /\ UNCHANGED << captureVars, playbackVars, clock, codecVars, vaultVars >>

\* ------------------------------------------------ capture path: lines 54-67
\* The audio thread hands one block of the live stream to the ScriptProcessor
\* and queues an audioprocess event for it.
\* variant in which the processor delivers blocks as soon as it exists, as if
\* onaudioprocess were set and the graph connected at line 37
captureBlockUnguarded(limit) ==
    /\ inputCtx = "running"
    /\ stream = "live"
    /\ blocks < limit
    /\ blocks' = blocks + 1
    /\ capQ' = Append(capQ, blocks + 1)
    /\ UNCHANGED << pendingSends, sent >>
    /\ UNCHANGED << lifecycleVars, playbackVars, clock, codecVars, vaultVars >>

captureBlock(limit) ==
    /\ handler
    /\ inputCtx = "running"
    /\ stream = "live"
    /\ blocks < limit
    /\ blocks' = blocks + 1
    /\ capQ' = Append(capQ, blocks + 1)
    /\ UNCHANGED << pendingSends, sent >>
    /\ UNCHANGED << lifecycleVars, playbackVars, clock, codecVars, vaultVars >>

CaptureBlock == captureBlock(MaxBlocks)

\* the same step where the audio thread produces up to MaxCapture blocks
CaptureMany == captureBlock(MaxCapture)

\* variant of lines 59-66 that sends through the session only when the promise
\* has already resolved, and otherwise skips the block
thenSendIfResolved(reactions, block) ==
    IF session = "resolved"
    THEN Append(reactions, [block |-> block, early |-> FALSE])
    ELSE reactions

\* lines 59-66: sessionPromise?.then(session => session.sendRealtimeInput(..))
\* registers one reaction for the block; early records that the promise had
\* not resolved yet
thenSend(reactions, block) ==
    Append(reactions, [block |-> block, early |-> session # "resolved"])

\* processor.onaudioprocess: encode the block and register the send as a
\* reaction on sessionPromise.  The callback reads neither mounted nor status.
OnAudioProcess ==
    /\ capQ # << >>
    /\ capQ' = Tail(capQ)
    /\ pendingSends' = thenSend(pendingSends, Head(capQ))
    /\ UNCHANGED << sent, blocks >>
    /\ UNCHANGED << lifecycleVars, playbackVars, clock, codecVars, vaultVars >>

\* variant in which the reaction catches a failed send and reports it as a
\* session error: .catch(() => setStatus('error'))
SendFrameEscalates ==
    /\ session = "resolved"
    /\ pendingSends # << >>
    /\ pendingSends' = Tail(pendingSends)
    /\ \E throws \in BOOLEAN :
         /\ sent' = Append(sent, [block     |-> Head(pendingSends).block,
                                  early     |-> Head(pendingSends).early,
                                  threw     |-> throws,
                                  mounted   |-> mounted,
                                  status    |-> status,
                                  transport |-> transport])
         /\ status' = IF throws THEN "error" ELSE status
    /\ UNCHANGED << capQ, blocks >>
    /\ UNCHANGED << mounted, initPc, inputCtx, outputCtx, inputRef, outputRef,
                    stream, transport, session, handler, released,
                    closeRequests, statusAtClose >>
    /\ UNCHANGED << playbackVars, clock, codecVars, vaultVars >>

\* sessionPromise.then(session => session.sendRealtimeInput({media})):
\* reactions run in registration order once the promise has resolved.
\* sendRealtimeInput may throw; the reaction's promise then rejects, unhandled.
SendFrame ==
    /\ session = "resolved"
    /\ pendingSends # << >>
    /\ pendingSends' = Tail(pendingSends)
    /\ \E throws \in BOOLEAN :
         sent' = Append(sent, [block     |-> Head(pendingSends).block,
                               early     |-> Head(pendingSends).early,
                               threw     |-> throws,
                               mounted   |-> mounted,
                               status    |-> status,
                               transport |-> transport])
    /\ UNCHANGED << capQ, blocks >>
    /\ UNCHANGED << lifecycleVars, playbackVars, clock, codecVars, vaultVars >>

\* ----------------------------------------------- playback path: lines 72-86
\* onmessage up to its await: return when unmounted; when the first part has
\* inline audio data call decodeAudio (which runs to its end synchronously)
\* and suspend on its promise.
\* variant in which a later handler's continuation overtakes those waiting
suspendInFront(waiting, h) == << h >> \o waiting

\* line 78: await -- the handler's continuation is queued behind those of the
\* handlers that suspended before it
suspend(waiting, h) == Append(waiting, h)

\* variant of lines 76-77 that never looks for the inline data: every message
\* of a mounted session goes to decodeAudio
receiveAnyPart(limit, messages) ==
    /\ transport = "open"
    /\ msgs < limit
    /\ msgs' = msgs + 1
    /\ \E m \in messages :
         IF mounted
         THEN decodeQ' = suspend(decodeQ, [msg    |-> msgs + 1,
                                           result |-> decodeAudio(m)])
         ELSE UNCHANGED decodeQ
    /\ UNCHANGED << nextStartTimeRef, scheduled, sourcesRef, stopped, failed >>
    /\ UNCHANGED << lifecycleVars, captureVars, clock, codecVars, vaultVars >>

receive(limit, messages) ==
    /\ transport = "open"
    /\ msgs < limit
    /\ msgs' = msgs + 1
    /\ \E m \in messages :
         IF mounted /\ m.hasAudio
         THEN decodeQ' = suspend(decodeQ, [msg    |-> msgs + 1,
                                           result |-> decodeAudio(m)])
         ELSE UNCHANGED decodeQ
    /\ UNCHANGED << nextStartTimeRef, scheduled, sourcesRef, stopped, failed >>
    /\ UNCHANGED << lifecycleVars, captureVars, clock, codecVars, vaultVars >>

onmessage(limit) == receive(limit, Messages)

OnMessage == onmessage(MaxMsgs)

\* messages without an audio payload: control events, parts without inlineData
ControlMessages == { m \in Messages : ~m.hasAudio }

\* the same handler receiving those, for the runs of ControlSpec
ControlMessage == receive(MaxMsgs, ControlMessages)

\* chunks of one second and of half a second of 24 kHz audio
SecondsMessages ==
    { [hasAudio |-> TRUE, b64ok |-> TRUE, nbytes |-> n] : n \in {48000, 24000} }

\* the same handler receiving those chunks, for the runs of RateSpec
SecondsMessage == receive(MaxMsgs, SecondsMessages)

\* the same handler, for the runs of BurstSpec
BurstMessage == onmessage(MaxBurst)

\* variants of line 152 that forget the cursor, or forget the clock
playStartNow(now, cursor) == now
playStartCursor(now, cursor) == cursor

\* variant of line 152 that schedules one tick ahead of the clock
playStartLookahead(now, cursor) == Max(now + 1, cursor)

\* variant of line 152 working on the cursor value the call before it had read,
\* as if that call's write were lost
playStartStale(now, cursor) ==
    Max(now, IF scheduled = << >> THEN cursor
             ELSE scheduled[Len(scheduled)].cursor)

\* playAudio line 152: const start = Math.max(now, nextStartTimeRef.current)
playStart(now, cursor) == Max(now, cursor)

\* variant of line 154 that forgets the start: = buffer.duration
playNextDurationOnly(start, buffer) == duration(buffer)

\* variant of line 154 that advances the cursor by the duration (+=)
playNextAdvance(start, buffer) == nextStartTimeRef + duration(buffer)

\* variant of line 154 that advances the cursor from the clock, not from start
playNextFromClock(start, buffer) == clock + duration(buffer)

\* playAudio line 154: nextStartTimeRef.current = start + buffer.duration
playNext(start, buffer) == start + duration(buffer)

\* variant of line 156 that starts the set afresh with the new source
registerAlone(handles, h) == {h}

\* line 156: sourcesRef.current.add(source)
register(handles, h) == handles \cup {h}

\* playAudio(buffer, ctx), lines 145-158, as one synchronous step
playAudio(msg, buffer) ==
    LET now   == clock
        start == playStart(now, nextStartTimeRef)
    IN  /\ scheduled' = Append(scheduled, [msg      |-> msg,
                                           start    |-> start,
                                           length   |-> buffer.length,
                                           duration |-> duration(buffer),
                                           now      |-> now,
                                           cursor   |-> nextStartTimeRef,
                                           mounted  |-> mounted,
                                           status   |-> status])
        /\ nextStartTimeRef' = playNext(start, buffer)
        /\ sourcesRef' = register(sourcesRef, Len(scheduled) + 1)

\* variant in which a failed decode still reaches playAudio
resumePlaysAlways(result) == TRUE

\* whether the continuation after await decodeAudio(...) calls playAudio
resumePlays(result) == result.ok

\* variant in which the handler catches a rejected decode and reports it as a
\* session error: catch { setStatus('error') }
OnMessageResumeReports ==
    /\ decodeQ # << >>
    /\ decodeQ' = Tail(decodeQ)
    /\ \E throws \in (IF outputCtx = "closed" THEN BOOLEAN ELSE {FALSE}) :
         IF resumePlays(Head(decodeQ).result) /\ ~throws
         THEN playAudio(Head(decodeQ).msg, Head(decodeQ).result)
         ELSE UNCHANGED << nextStartTimeRef, scheduled, sourcesRef >>
    /\ failed' = IF Head(decodeQ).result.ok THEN failed
                 ELSE failed \cup {Head(decodeQ).msg}
    /\ status' = IF Head(decodeQ).result.ok THEN status ELSE "error"
    /\ UNCHANGED << stopped, msgs >>
    /\ UNCHANGED << mounted, initPc, inputCtx, outputCtx, inputRef, outputRef,
                    stream, transport, session, handler, released,
                    closeRequests, statusAtClose >>
    /\ UNCHANGED << captureVars, clock, codecVars, vaultVars >>

\* onmessage after its await: a rejected decode rethrows out of the handler,
\* a decoded buffer is passed to playAudio.  There is no second mounted check.
\* On a closed output context the platform may refuse createBufferSource.
OnMessageResume ==
    /\ decodeQ # << >>
    /\ decodeQ' = Tail(decodeQ)
    /\ \E throws \in (IF outputCtx = "closed" THEN BOOLEAN ELSE {FALSE}) :
         IF resumePlays(Head(decodeQ).result) /\ ~throws
         THEN playAudio(Head(decodeQ).msg, Head(decodeQ).result)
         ELSE UNCHANGED << nextStartTimeRef, scheduled, sourcesRef >>
    /\ failed' = IF Head(decodeQ).result.ok THEN failed
                 ELSE failed \cup {Head(decodeQ).msg}
    /\ UNCHANGED << stopped, msgs >>
    /\ UNCHANGED << lifecycleVars, captureVars, clock, codecVars, vaultVars >>

\* source.onended = () => sourcesRef.current.delete(source): fires when the
\* buffer has played to its end or after stop().
OnEnded ==
    /\ \E h \in sourcesRef :
         /\ \/ h \in stopped
            \/ clock >= scheduled[h].start + scheduled[h].duration
         /\ sourcesRef' = sourcesRef \ {h}
    /\ UNCHANGED << nextStartTimeRef, scheduled, stopped, decodeQ, msgs, failed >>
    /\ UNCHANGED << lifecycleVars, captureVars, clock, codecVars, vaultVars >>

\* outputContext.currentTime advances while the context runs.
Tick ==
    /\ outputCtx = "running"
    /\ clock < MaxClock
    /\ clock' = clock + 1
    /\ UNCHANGED << lifecycleVars, captureVars, playbackVars, codecVars, vaultVars >>

\* --------------------------------------------- effect cleanup: lines 107-113
\* mounted = false; inputContextRef.current?.close();
\* outputContextRef.current?.close(); sourcesRef.current.forEach(s => s.stop())
cleanup ==
    /\ mounted' = FALSE
    /\ inputCtx' = IF inputRef THEN "closed" ELSE inputCtx
    /\ outputCtx' = IF outputRef THEN "closed" ELSE outputCtx
    /\ released' = [released EXCEPT
                      !["inputContext"]  = @ + (IF inputRef THEN 1 ELSE 0),
                      !["outputContext"] = @ + (IF outputRef THEN 1 ELSE 0)]
    /\ stopped' = stopped \cup sourcesRef
    /\ statusAtClose' = status
    /\ UNCHANGED << status, initPc, inputRef, outputRef, stream, transport,
                    session, handler >>
    /\ UNCHANGED << nextStartTimeRef, scheduled, sourcesRef, decodeQ, msgs,
                    failed >>

\* The caller's close request (End Session -> onClose -> the parent unmounts
\* the component).  The first request unmounts and runs the effect cleanup;
\* the component is gone after that, so a repeated request runs nothing.
Close ==
    /\ initPc # "start"
    /\ closeRequests' = IF closeRequests < 2 THEN closeRequests + 1 ELSE closeRequests
    /\ IF mounted
       THEN cleanup
       ELSE /\ UNCHANGED << status, mounted, initPc, inputCtx, outputCtx,
                            inputRef, outputRef, stream, transport, session,
                            handler, released, statusAtClose >>
            /\ UNCHANGED playbackVars
    /\ UNCHANGED << captureVars, clock, codecVars, vaultVars >>

\* ------------------------------------------------------------ specification
\* init, the transport lifecycle callbacks and the caller's close
LifecycleNext ==
    \/ InitBegin
    \/ GumReject
    \/ GumResolve
    \/ OnOpen
    \/ SessionResolve
    \/ ConnectReject
    \/ OnError
    \/ OnClose
    \/ Close

\* microphone -> transport
CaptureNext ==
    \/ CaptureBlock
    \/ OnAudioProcess
    \/ SendFrame

\* transport -> speaker
PlaybackNext ==
    \/ OnMessage
    \/ OnMessageResume
    \/ OnEnded
    \/ Tick

Next == LifecycleNext \/ CaptureNext \/ PlaybackNext

Spec == Init /\ [][Next]_vars

\* The session seen from the playback side.  The capture steps write only
\* capQ, pendingSends, sent and blocks, which no other step reads, so the
\* behaviours of Spec and of PlaybackSpec agree on every other variable.
PlaybackSpec == Init /\ [][LifecycleNext \/ PlaybackNext]_vars

\* The session with longer bursts of inbound chunks than PlaybackSpec admits.
\* The onended callback is left out: it writes only sourcesRef, which the
\* scheduling steps never read.
BurstNext ==
    \/ LifecycleNext
    \/ BurstMessage
    \/ OnMessageResume
    \/ Tick

BurstSpec == Init /\ [][BurstNext]_vars

\* both data paths with the life cycle, the output clock standing still
DataNext ==
    \/ LifecycleNext
    \/ CaptureNext
    \/ OnMessage
    \/ OnMessageResume

DataSpec == Init /\ [][DataNext]_vars

\* a session that receives messages without audio only: no handler suspends,
\* so there is no continuation to resume and no source to end
ControlNext ==
    \/ LifecycleNext
    \/ ControlMessage
    \/ Tick

ControlSpec == Init /\ [][ControlNext]_vars

\* chunks of whole and half seconds: the playback path without OnEnded, as in
\* BurstSpec
RateNext ==
    \/ LifecycleNext
    \/ SecondsMessage
    \/ OnMessageResume
    \/ Tick

RateSpec == Init /\ [][RateNext]_vars

\* the life cycle with the capture path alone: microphone -> transport
CaptureManyNext ==
    \/ LifecycleNext
    \/ CaptureMany
    \/ OnAudioProcess
    \/ SendFrame

CaptureSpec == Init /\ [][CaptureManyNext]_vars

\* ---------------------------------------------------------- the codec alone
RECURSIVE SeqsUpTo(_, _)
SeqsUpTo(S, n) ==
    IF n = 0 THEN { << >> }
    ELSE LET shorter == SeqsUpTo(S, n - 1)
         IN  shorter \cup { Append(q, x) : q \in shorter, x \in S }

\* any Float32Array of up to MaxSamples samples is handed to the codec
CodecInit ==
    /\ SessionInit
    /\ VaultFirstLaunch
    /\ codecIn \in SeqsUpTo(Samples, MaxSamples)
    /\ codecBytes = NoBytes
    /\ codecBack = NoBack

\* lines 56-57: pcm16 = floatTo16BitPCM(inputData); new Uint8Array(pcm16.buffer)
CodecEncode ==
    /\ codecBytes = NoBytes
    /\ codecBytes' = [done |-> TRUE,
                      bytes |-> pcmBytes(floatTo16BitPCM(codecIn))]
    /\ UNCHANGED << codecIn, codecBack >>
    /\ UNCHANGED << lifecycleVars, captureVars, playbackVars, clock, vaultVars >>

\* lines 136-141: the bytes read back as Int16 samples and widened
CodecDecode ==
    /\ codecBytes.done
    /\ codecBack = NoBack
    /\ codecBack' = decodePCM(codecBytes.bytes)
    /\ UNCHANGED << codecIn, codecBytes >>
    /\ UNCHANGED << lifecycleVars, captureVars, playbackVars, clock, vaultVars >>

CodecNext == CodecEncode \/ CodecDecode

CodecSpec == CodecInit /\ [][CodecNext]_vars

\* --------------------------------------------------------- the decoder alone
\* byte values the transport may deliver: low, high and sign-bit bytes
WireBytes == {0, 1, 128, 255}

\* atob returned any sequence of up to MaxWire bytes, of even or odd length
DecodeInit ==
    /\ SessionInit
    /\ VaultFirstLaunch
    /\ codecIn = << >>
    /\ codecBytes \in { [done |-> TRUE, bytes |-> b] :
                            b \in SeqsUpTo(WireBytes, MaxWire) }
    /\ codecBack = NoBack

DecodeSpec == DecodeInit /\ [][CodecDecode]_vars

\* --------------------------------------------------- the note vault (App.tsx)
Ids(list) == { list[i] : i \in 1 .. Len(list) }

\* a notes list as loadNotes can return it: every note got its id from uuid()
NoteLists == { q \in SeqsUpTo(NoteIds, MaxNotes) :
                 \A i, j \in 1 .. Len(q) : q[i] = q[j] => i = j }

\* lines 15-21: saved notes if there are any, otherwise one fresh note;
\* lines 24-30: the saved id if it names a saved note, otherwise the first
\* saved note's id, otherwise null
VaultInit ==
    /\ SessionInit
    /\ codecIn = << >>
    /\ codecBytes = NoBytes
    /\ codecBack = NoBack
    /\ lastDeleted = NoNote
    /\ \E saved \in NoteLists, savedId \in NoteIds \cup { NoNote }, fresh \in NoteIds :
          /\ notes = IF Len(saved) > 0 THEN saved ELSE << fresh >>
          /\ activeNoteId = IF savedId # NoNote /\ savedId \in Ids(saved)
                               THEN savedId
                             ELSE IF Len(saved) > 0 THEN saved[1]
                             ELSE NoNote

\* lines 63-67: with no active id and a non-empty list, the first note is chosen
ActiveFallback ==
    /\ activeNoteId = NoNote
    /\ Len(notes) > 0
    /\ activeNoteId' = notes[1]
    /\ UNCHANGED << lifecycleVars, captureVars, playbackVars, clock, codecVars,
                    notes, lastDeleted >>

\* lines 71-76: a fresh note is put in front and made active
handleCreateNote ==
    /\ Len(notes) < MaxNotes
    /\ \E newNote \in NoteIds \ Ids(notes) :
          /\ notes' = << newNote >> \o notes
          /\ activeNoteId' = newNote
    /\ UNCHANGED << lifecycleVars, captureVars, playbackVars, clock, codecVars,
                    lastDeleted >>

\* handleSelectNote: a note of the sidebar's list is made active
handleSelectNote ==
    /\ \E id \in Ids(notes) : activeNoteId' = id
    /\ UNCHANGED << lifecycleVars, captureVars, playbackVars, clock, codecVars,
                    notes, lastDeleted >>

\* line 79: notes.filter(n => n.id !== id)
remainingNotes(id) == SelectSeq(notes, LAMBDA n : n # id)

\* the else-if of lines 88-90 left out: the active id is kept whatever is deleted
deleteNextIdKeeps(id, remaining) == activeNoteId

\* lines 81-82 and 88-90: the active id is kept unless the active note is the
\* deleted one, and then the first remaining note is taken
deleteNextId(id, remaining) ==
    IF id = activeNoteId THEN remaining[1] ELSE activeNoteId

\* lines 78-96
handleDeleteNote ==
    /\ \E id \in NoteIds :
          LET remaining == remainingNotes(id)
          IN  /\ lastDeleted' = id
              /\ IF Len(remaining) = 0
                    THEN \E fresh \in NoteIds \ Ids(notes) :
                           /\ notes' = << fresh >>
                           /\ activeNoteId' = fresh
                    ELSE /\ notes' = remaining
                         /\ activeNoteId' = deleteNextId(id, remaining)
    /\ UNCHANGED << lifecycleVars, captureVars, playbackVars, clock, codecVars >>

VaultNext ==
    \/ ActiveFallback
    \/ handleCreateNote
    \/ handleSelectNote
    \/ handleDeleteNote

VaultSpec == VaultInit /\ [][VaultNext]_vars

\* ------------------------------------------------------------------ helpers
End(p) == p.start + p.duration

Playbacks == 1..Len(scheduled)

\* the step that resumes the oldest suspended onmessage handler
ResumeStep == decodeQ # << >> /\ decodeQ' = Tail(decodeQ)

\* ------------------------------------------------------------------- claims

\* C1: no overlap -- of any two playbacks scheduled on a session, the later one
\* starts at or after the end (start + duration) of the earlier one.
C1_NoOverlap ==
    \A i \in Playbacks : \A j \in Playbacks :
        i < j => scheduled[j].start >= End(scheduled[i])

\* a chunk was scheduled while the previous playback had not yet ended
C1_Witness ==
    \E j \in Playbacks :
        j > 1 /\ scheduled[j].now < End(scheduled[j - 1])

\* C2: no unnecessary gap -- a playback that follows another starts at exactly
\* max(clock when it is scheduled, end of its predecessor), and after a
\* scheduling the cursor equals the start plus the duration of the last playback.
C2_NoGap ==
    /\ \A j \in Playbacks :
         j > 1 => scheduled[j].start = Max(scheduled[j].now, End(scheduled[j - 1]))
    /\ scheduled # << >> => nextStartTimeRef = End(scheduled[Len(scheduled)])

\* two playbacks, the second one queued behind the first (start after its clock)
C2_Witness ==
    /\ Len(scheduled) >= 2
    /\ scheduled[Len(scheduled)].start > scheduled[Len(scheduled)].now
    /\ nextStartTimeRef = End(scheduled[Len(scheduled)])

\* C3 (as claimed): once the status is closed or error, no later event changes it.
C3_TerminalAbsorbing ==
    [][(status \in {"closed", "error"}) => (status' = status)]_vars

\* what the session holds or keeps running
NothingHeld ==
    /\ inputCtx # "running"
    /\ outputCtx # "running"
    /\ stream # "live"
    /\ transport \notin {"opening", "open", "errored"}
    /\ sourcesRef \subseteq stopped

\* every resource the session acquired was released by exactly one release call
ReleasedOnce ==
    /\ inputCtx # "none" => released["inputContext"] = 1
    /\ outputCtx # "none" => released["outputContext"] = 1
    /\ stream # "none" => released["stream"] = 1
    /\ transport # "none" => released["transport"] = 1

\* C4 (as claimed): whenever the status is error or closed the teardown has run
\* exactly once -- capture stopped, every active playback stopped, capture and
\* output resources released, transport closed.
C4_TeardownOnTerminal ==
    status \in {"error", "closed"} =>
        /\ NothingHeld
        /\ \A r \in Resources : released[r] <= 1

C6_NoSendAfterTeardown ==
    \A i \in 1..Len(sent) : sent[i].mounted

\* init() has run to its end, the connect promise has settled and no callback
\* is suspended or queued
Settled ==
    /\ initPc \in {"done", "failed"}
    /\ session # "pending"
    /\ capQ = << >> /\ pendingSends = << >> /\ decodeQ = << >>

\* C7 (as claimed): a close made while the session is still connecting releases
\* every resource the session acquires, also those acquired after the close,
\* and does not leave the transport open.
C7_CloseWhileConnectingReleasesAll ==
    (statusAtClose = "connecting" /\ Settled) => NothingHeld

\* C8 (as claimed): after close was invoked twice every acquired resource has
\* been released exactly once, and after the first close nothing is sent,
\* nothing is scheduled and the status does not change.
C8_CloseIdempotent ==
    /\ closeRequests = 2 => ReleasedOnce
    /\ closeRequests >= 1 =>
         /\ \A i \in 1..Len(sent) : sent[i].mounted
         /\ \A j \in Playbacks : scheduled[j].mounted
         /\ status = statusAtClose

\* C9: decode-failure isolation -- the handler of a chunk that failed to decode
\* schedules nothing and leaves the cursor, the active-source set and the status
\* unchanged, and a chunk resumed after a failure on a live session is scheduled
\* at max(clock, cursor) as usual.
C9_DecodeFailureIsolated ==
    [][ResumeStep =>
         /\ ~Head(decodeQ).result.ok =>
               UNCHANGED << scheduled, nextStartTimeRef, sourcesRef, status >>
         /\ (Head(decodeQ).result.ok /\ failed # {} /\ mounted) =>
               /\ Len(scheduled') = Len(scheduled) + 1
               /\ scheduled'[Len(scheduled')].start = Max(clock, nextStartTimeRef)
               /\ scheduled'[Len(scheduled')].msg = Head(decodeQ).msg
       ]_vars

\* a chunk was dropped on a decode failure and a later chunk was scheduled
C9_Witness ==
    \E j \in Playbacks : \E f \in failed : scheduled[j].msg > f

\* C10: late-arrival catch-up -- a decoded chunk whose handler resumes on a live
\* session is always scheduled, no playback starts before the clock reading at
\* which it was scheduled, and when the clock has reached or passed the cursor
\* the playback starts at that clock reading.
C10_LateArrivalCatchUp ==
    /\ [](\A j \in Playbacks :
            /\ scheduled[j].start >= scheduled[j].now
            /\ scheduled[j].now >= scheduled[j].cursor =>
                   scheduled[j].start = scheduled[j].now)
    /\ [][(ResumeStep /\ Head(decodeQ).result.ok /\ mounted) =>
             (Len(scheduled') = Len(scheduled) + 1)]_vars

\* a chunk was scheduled after the clock had passed the cursor left by its
\* predecessor
C10_Witness ==
    \E j \in Playbacks :
        /\ j > 1
        /\ scheduled[j].now > scheduled[j].cursor
        /\ scheduled[j].start = scheduled[j].now
        /\ scheduled[j].mounted

\* the first three playbacks of the session were scheduled at one clock reading
Burst3 ==
    /\ Len(scheduled) >= 3
    /\ scheduled[2].now = scheduled[1].now
    /\ scheduled[3].now = scheduled[1].now

\* C11: gapless burst -- when the first three chunks of a session are scheduled
\* back-to-back at clock reading t0, with durations d1, d2, d3, their starts are
\* exactly t0, t0 + d1 and t0 + d1 + d2.
C11_GaplessBurst ==
    Burst3 =>
        /\ scheduled[1].start = scheduled[1].now
        /\ scheduled[2].start = scheduled[1].now + scheduled[1].duration
        /\ scheduled[3].start = scheduled[1].now + scheduled[1].duration
                                                 + scheduled[2].duration

\* a burst of three chunks of different durations at a clock reading after 0
C11_Witness ==
    /\ Burst3
    /\ scheduled[1].now > 0
    /\ scheduled[1].duration # scheduled[2].duration

Abs(x) == IF x >= 0 THEN x ELSE -x

\* one quantization step, 1/32768, as a multiple of 1 / SampleDen
Quantum == SampleDen \div 32768

InRange(k) == -SampleDen <= k /\ k <= SampleDen

RoundTripped == codecBack.done /\ codecBack.ok

\* C12 (as claimed): every sample in [-1, 1] comes back from encoding and
\* decoding within 1/32768 of itself.
C12_RoundTripOneStep ==
    RoundTripped =>
        \A i \in 1..Len(codecIn) :
            InRange(codecIn[i]) =>
                Abs(codecBack.samples[i] - codecIn[i]) <= Quantum

\* C12 (amended): every sample in [-1, 1] comes back less than 2/32768 from
\* itself, and a sample in [-1, 0] comes back within 1/32768 of itself.
C12_RoundTripTwoSteps ==
    RoundTripped =>
        \A i \in 1..Len(codecIn) :
            InRange(codecIn[i]) =>
                /\ Abs(codecBack.samples[i] - codecIn[i]) < 2 * Quantum
                /\ codecIn[i] <= 0 =>
                       Abs(codecBack.samples[i] - codecIn[i]) <= Quantum

\* a positive sample came back more than one step, less than two steps, off
C12_Witness ==
    /\ RoundTripped
    /\ \E i \in 1..Len(codecIn) :
          /\ InRange(codecIn[i])
          /\ codecIn[i] > 0
          /\ Abs(codecBack.samples[i] - codecIn[i]) > Quantum

\* C13: while the component is mounted and its status is connecting or
\* connected, the transport's error event sets the status to error and the
\* transport's close event sets it to closed.
C13_TransportEvents ==
    [][(mounted /\ status \in {"connecting", "connected"}) =>
          /\ (transport # "errored" /\ transport' = "errored")
                 => status' = "error"
          /\ (transport # "closed" /\ transport' = "closed")
                 => status' = "closed"]_vars

\* onerror has fired on a mounted session and set the status
C13_Witness ==
    /\ mounted
    /\ transport = "errored"
    /\ status = "error"

\* C14: the status starts as connecting, and every step that makes it
\* connected is the transport's open event taken while it was connecting.
C14_ConnectedOnlyByOpen ==
    /\ status = "connecting"
    /\ [][(status # "connected" /\ status' = "connected") =>
             /\ status = "connecting"
             /\ transport = "opening"
             /\ transport' = "open"]_vars

\* onopen has fired on a mounted session
C14_Witness ==
    /\ mounted
    /\ transport = "open"
    /\ status = "connected"

\* C15 (as claimed): once the caller has requested the close the status is
\* closed and the teardown has run: nothing is held or left running.
C15_ExplicitCloseCloses ==
    closeRequests >= 1 => (status = "closed" /\ NothingHeld)

\* init() failed at getUserMedia: both contexts were built and put in their
\* refs, and no stream was ever obtained
GumRejected ==
    /\ initPc = "failed"
    /\ inputRef /\ outputRef
    /\ stream = "none"

\* C16 (as claimed): after getUserMedia has rejected the status is error and
\* both audio contexts, acquired before the failure, are released.
C16_GumRejectReleases ==
    GumRejected =>
        /\ status = "error"
        /\ inputCtx = "closed"
        /\ outputCtx = "closed"

\* C17 (as claimed): once the promise returned by ai.live.connect has rejected
\* the status is error.
C17_ConnectRejectIsError ==
    session = "rejected" => status = "error"

\* C18 (as claimed): every frame handed to the transport was sent while the
\* status was connected.
C18_SendOnlyWhileConnected ==
    \A i \in 1..Len(sent) : sent[i].status = "connected"

\* the blocks of a sequence of send records, in its order
blocksOf(records) == [i \in 1..Len(records) |-> records[i].block]

\* C19: no drop and no reorder -- the blocks sent so far, then those whose
\* send waits on the session promise, then those whose audioprocess event is
\* still queued, are exactly the blocks captured, each once, in capture
\* order; so every block is sent exactly once and in order.
C19_NoDropNoReorder ==
    blocksOf(sent) \o blocksOf(pendingSends) \o capQ = [i \in 1..blocks |-> i]

\* several blocks were sent while connected, the first of them captured
\* before the session promise had resolved
C19_Witness ==
    /\ Len(sent) >= 2
    /\ sent[1].early
    /\ \A i \in 1..Len(sent) :
          sent[i].status = "connected" /\ sent[i].block = i /\ ~sent[i].threw
    /\ pendingSends = << >> /\ capQ = << >>

\* C20: the frame encoded from a block of n samples, n >= 0, has exactly 2n
\* bytes, and its i-th pair of bytes is the 16-bit sample of the i-th input
\* sample.
C20_FrameLength ==
    codecBytes.done =>
        /\ Len(codecBytes.bytes) = 2 * Len(codecIn)
        /\ \A i \in 1..Len(codecIn) :
              int16At(codecBytes.bytes, i) = encodeSample(codecIn[i])

\* a block of two samples that encode differently was encoded into four bytes
C20_Witness ==
    /\ codecBytes.done
    /\ Len(codecIn) = 2
    /\ Len(codecBytes.bytes) = 4
    /\ encodeSample(codecIn[1]) # encodeSample(codecIn[2])

\* C21: every input sample, also one outside [-1, 1], is stored as the
\* 16-bit value of its clamped and scaled self with no wrap-around: at or
\* below -1 gives -32768, 0 gives 0, at or above 1 gives 32767, and in between
\* the value is the integer part of s * 32768 (s < 0) or s * 32767 (s >= 0),
\* so it keeps the sign of the sample.
C21_ClampAndScale ==
    codecBytes.done =>
        \A i \in 1..Len(codecIn) :
            LET k == codecIn[i]
                v == int16At(codecBytes.bytes, i)
            IN  /\ k <= -SampleDen => v = -32768
                /\ k >= SampleDen => v = 32767
                /\ k = 0 => v = 0
                /\ (-SampleDen < k /\ k < 0) =>
                      /\ -32768 < v /\ v <= 0
                      /\ (v - 1) * Quantum < k
                      /\ k <= v * Quantum
                /\ (0 < k /\ k < SampleDen) =>
                      /\ 0 <= v /\ v < 32767
                      /\ v * SampleDen <= k * 32767
                      /\ k * 32767 < (v + 1) * SampleDen

\* a block with a sample above 1 and a sample below -1 was encoded
C21_Witness ==
    /\ codecBytes.done
    /\ Len(codecIn) = 2
    /\ codecIn[1] > SampleDen /\ int16At(codecBytes.bytes, 1) = 32767
    /\ codecIn[2] < -SampleDen /\ int16At(codecBytes.bytes, 2) = -32768

\* C22 (as claimed): decoding a byte sequence of odd length fails and gives no
\* samples; decoding a sequence of 2k bytes succeeds with exactly k samples.
C22_DecodeByLength ==
    codecBack.done =>
        IF Len(codecBytes.bytes) % 2 # 0
        THEN ~codecBack.ok /\ codecBack.samples = << >>
        ELSE codecBack.ok
             /\ 2 * Len(codecBack.samples) = Len(codecBytes.bytes)

\* C23: nextStartTimeRef never decreases -- no step of the session, be it an
\* inbound chunk, a failed decode, a lifecycle event or a clock advance, makes
\* it smaller than it was.
C23_CursorMonotone ==
    [][nextStartTimeRef' >= nextStartTimeRef]_vars

\* the cursor was advanced twice, the second time from a positive value
C23_Witness ==
    /\ Len(scheduled) = 2
    /\ scheduled[2].cursor > 0
    /\ nextStartTimeRef > scheduled[2].cursor

\* the cursor as playback j left it
CursorAfter(j) ==
    IF j < Len(scheduled) THEN scheduled[j + 1].cursor ELSE nextStartTimeRef

\* C24: a chunk of n decoded samples plays for n / 24000 seconds and leaves
\* the cursor exactly that long after its start, so a chunk scheduled at the
\* same instant as the fresh chunk before it starts where that one ends.
C24_DurationIsCountOverRate ==
    \A j \in Playbacks :
        /\ scheduled[j].duration * 24000 = scheduled[j].length * TicksPerSecond
        /\ CursorAfter(j) = scheduled[j].start + scheduled[j].duration
        /\ (j > 1 /\ scheduled[j].now = scheduled[j - 1].now
                   /\ scheduled[j - 1].start = scheduled[j - 1].now) =>
               scheduled[j].start * 24000 =
                   scheduled[j - 1].now * 24000
                       + scheduled[j - 1].length * TicksPerSecond

\* chunks of 24000 and 12000 samples were delivered back-to-back at t0 > 0 and
\* scheduled at t0 and one second later
C24_Witness ==
    /\ Len(scheduled) = 2
    /\ scheduled[1].length = 24000 /\ scheduled[2].length = 12000
    /\ scheduled[1].now > 0 /\ scheduled[2].now = scheduled[1].now
    /\ scheduled[1].start = scheduled[1].now
    /\ scheduled[2].start = scheduled[1].now + TicksPerSecond

\* a step in which sendRealtimeInput was called and threw
SendThrew ==
    /\ Len(sent') = Len(sent) + 1
    /\ sent'[Len(sent')].threw

\* C25: a failed outbound send leaves the status as it was and loses only its
\* own frame: the sends registered behind it stay registered, the queued
\* blocks stay queued, and the session they are sent through stays resolved.
C25_SendFailureIsolated ==
    [][SendThrew =>
          /\ status' = status
          /\ pendingSends' = Tail(pendingSends)
          /\ capQ' = capQ
          /\ session' = "resolved"]_vars

\* a send failed and a later frame was sent with the status still connected
C25_Witness ==
    \E i, j \in 1..Len(sent) :
        /\ i < j
        /\ sent[i].threw
        /\ ~sent[j].threw
        /\ sent[j].status = "connected"

\* C26: ai.live.connect is called at most once -- the only step that puts the
\* transport into opening (and stores a pending session promise) is init()
\* going on from getUserMedia with no transport yet; the transport never
\* returns to the state before the call, and never to opening from open,
\* errored, closed or failed.
C26_NoReconnect ==
    [][/\ (transport' = "opening" /\ transport # "opening") =>
              (transport = "none" /\ session = "none" /\ initPc = "awaitGUM")
       /\ (session' = "pending" /\ session # "pending") => session = "none"
       /\ transport # "none" => transport' # "none"
       /\ initPc = "done" => initPc' = "done"]_vars

\* the transport reported an error and then its close, and was not reopened
C26_Witness ==
    /\ transport = "closed"
    /\ status = "closed"
    /\ session = "resolved"
    /\ initPc = "done"

InHandlingOrder ==
    [j \in 1..Len(scheduled) |-> scheduled[j].msg]
        \o [k \in 1..Len(decodeQ) |-> decodeQ[k].msg]

\* C28: playbacks are scheduled in the order their messages arrived, and the
\* handlers still suspended at the await are in arrival order behind them,
\* whatever ran between the suspensions and the resumptions.
C28_ArrivalOrderKept ==
    \A i, j \in 1..Len(InHandlingOrder) :
        i < j => InHandlingOrder[i] < InHandlingOrder[j]

\* the first message's playback is scheduled while the handlers of two later
\* audio chunks, both decoded, are suspended at the same time
C28_Witness ==
    /\ Len(scheduled) >= 1
    /\ Len(decodeQ) >= 2
    /\ \A k \in 1..Len(decodeQ) : decodeQ[k].result.ok

\* a step in which playAudio ran: one playback more is scheduled
Scheduling == Len(scheduled') = Len(scheduled) + 1

\* the playback such a step scheduled
Newest == scheduled'[Len(scheduled')]

\* what every step does: if it schedules, it works on the cursor as it found
\* it and nothing else runs within it; if it does not, it leaves the cursor
AtomicStep ==
    /\ Scheduling =>
          /\ Newest.cursor = nextStartTimeRef
          /\ Newest.start = Max(clock, nextStartTimeRef)
          /\ nextStartTimeRef' = Newest.start + Newest.duration
          /\ mounted' = mounted /\ closeRequests' = closeRequests
          /\ clock' = clock
    /\ (nextStartTimeRef' # nextStartTimeRef) => Scheduling

\* C29: the scheduling operation is atomic with respect to the cursor -- the
\* step that schedules a playback computes its start from the cursor as the
\* step found it and leaves start + duration in the cursor, no close runs in
\* that step, and no other step writes the cursor; so no two playbacks were
\* computed from the same cursor value.
C29_SchedulingAtomic ==
    /\ [][AtomicStep]_vars
    /\ [](\A i, j \in Playbacks :
              i < j => scheduled[i].cursor < scheduled[j].cursor)

\* two playbacks were scheduled, the second from the cursor the first left,
\* which was ahead of the clock
C29_Witness ==
    /\ Len(scheduled) = 2
    /\ scheduled[2].cursor = scheduled[1].start + scheduled[1].duration
    /\ scheduled[2].cursor > scheduled[2].now
    /\ scheduled[2].start = scheduled[2].cursor

\* how a step may change the active set: a scheduling step adds the handle it
\* scheduled and nothing else; any other step leaves the set or removes one
\* handle, whose playback has run to its end or was stopped
ActiveSetStep ==
    IF Scheduling
    THEN sourcesRef' = sourcesRef \cup {Len(scheduled')}
    ELSE \/ sourcesRef' = sourcesRef
         \/ \E h \in sourcesRef :
              /\ sourcesRef' = sourcesRef \ {h}
              /\ \/ h \in stopped
                 \/ clock >= End(scheduled[h])

\* C30: the active set holds scheduled playbacks only; a handle enters it in
\* the step that schedules it and leaves it in the step of its ended event;
\* so before the teardown every scheduled playback missing from the set has
\* played to its end.
C30_ActiveSet ==
    /\ [][ActiveSetStep]_vars
    /\ [](sourcesRef \subseteq Playbacks)
    /\ [](mounted =>
            \A h \in Playbacks \ sourcesRef : clock >= End(scheduled[h]))

\* before the teardown: one playback has ended and left the set, another is
\* still in it
C30_Witness ==
    /\ mounted
    /\ sourcesRef # {}
    /\ Playbacks \ sourcesRef # {}

\* the step in which the effect cleanup runs
Teardown == mounted /\ ~mounted'

\* C31 (as claimed): the teardown stops every handle that is in the active set
\* when it runs and leaves the active set empty.
C31_TeardownStopsAndClears ==
    [][Teardown =>
          /\ sourcesRef \subseteq stopped'
          /\ sourcesRef' = {}]_vars

\* C32 (as claimed): the teardown leaves the cursor at the output clock's
\* current time.
C32_TeardownResetsCursor ==
    [][Teardown => (nextStartTimeRef' = clock')]_vars

\* C33: the cursor starts at the output clock's reading, zero, so the first
\* chunk of the session finds it there and starts at the clock's reading at
\* the moment it is scheduled.
C33_FirstChunkStartsNow ==
    /\ nextStartTimeRef = clock
    /\ [](scheduled = << >> => nextStartTimeRef = 0)
    /\ [](scheduled # << >> =>
            /\ scheduled[1].cursor = 0
            /\ scheduled[1].start = scheduled[1].now)

\* the first chunk was scheduled after the clock had advanced
C33_Witness ==
    /\ scheduled # << >>
    /\ scheduled[1].now > 0
    /\ scheduled[1].start = scheduled[1].now

\* a step of a data path: a message arrives, a suspended handler resumes, a
\* block is captured, its callback runs, or its frame is sent
DataStep ==
    \/ msgs' # msgs
    \/ decodeQ' # decodeQ
    \/ capQ' # capQ
    \/ pendingSends' # pendingSends
    \/ sent' # sent

\* a step of the life cycle: the transport opens, closes or fails, init()
\* fails, or the caller closes
LifecycleStep ==
    \/ transport' # transport
    \/ (initPc # "failed" /\ initPc' = "failed")
    \/ (mounted /\ ~mounted')

\* C34: no data event changes the status -- an inbound message, audio or not,
\* and a capture callback leave it as it was; it changes only in a step of
\* the life cycle.
C34_DataLeavesStatus ==
    [][/\ DataStep => (status' = status)
       /\ (status' # status) => LifecycleStep]_vars

\* frames were sent and a chunk was scheduled on a connected session, one
\* decode failed, and the status is still connected
C34_Witness ==
    /\ status = "connected"
    /\ sent # << >>
    /\ scheduled # << >>
    /\ failed # {}

\* C35: ai.live.connect has been called only when both audio contexts had
\* been constructed and getUserMedia had delivered the stream; the call is
\* made in the step in which init() goes on from getUserMedia; and once
\* init() has failed, at a constructor or at getUserMedia, no transport is
\* ever opened.
C35_ConnectAfterAcquisition ==
    /\ [](transport # "none" =>
            /\ inputCtx # "none" /\ outputCtx # "none"
            /\ inputRef /\ outputRef
            /\ stream = "live")
    /\ [](initPc = "failed" => transport = "none")
    /\ [][(transport = "none" /\ transport' # "none") =>
             (initPc = "awaitGUM" /\ stream' = "live")]_vars

\* the transport is being opened with both contexts running and the stream
\* live
C35_Witness ==
    /\ transport = "opening"
    /\ inputCtx = "running" /\ outputCtx = "running"
    /\ stream = "live"
    /\ mounted

InstallStep ==
    /\ (~handler /\ handler') => (transport = "opening" /\ transport' = "open")
    /\ handler => handler'

\* C38: the capture callback is installed by the transport's open event and
\* by nothing else, and stays installed; until then no block has been
\* delivered, encoded, queued or sent.
C38_CaptureStartsAtOpen ==
    /\ [][InstallStep]_vars
    /\ [](~handler =>
            /\ blocks = 0
            /\ capQ = << >> /\ pendingSends = << >> /\ sent = << >>)

\* after onopen a block was captured and its frame sent
C38_Witness ==
    /\ handler
    /\ transport = "open"
    /\ blocks >= 1
    /\ sent # << >>

\* a step of handleDeleteNote: its argument is recorded, or the list changed
\* without growing (handleCreateNote is the only other writer and it grows it)
DeleteStep ==
    \/ lastDeleted' # lastDeleted
    \/ (notes' # notes /\ Len(notes') <= Len(notes))

Usable == Len(notes) > 0 /\ activeNoteId \in Ids(notes)

\* C39: a handleDeleteNote from a state whose notes list is non-empty and whose
\* activeNoteId names a note of it ends with a non-empty list and an
\* activeNoteId that names a note of the resulting list; deleting the only
\* note leaves exactly one fresh note, which is the active one.
C39_DeleteKeepsVaultUsable ==
    [][(DeleteStep /\ Usable)
          => /\ Usable'
             /\ (Ids(notes) \subseteq { lastDeleted' })
                   => (Len(notes') = 1 /\ activeNoteId' = notes'[1])]_vars

\* the active note was deleted while others remained: the first remaining one
\* is active now
C39_Witness ==
    /\ lastDeleted # NoNote
    /\ lastDeleted \notin Ids(notes)
    /\ Len(notes) = MaxNotes - 1
    /\ activeNoteId = notes[1]

====
